---------------------------- MODULE Spec2Model ----------------------------
(* The event-driven ingestion pipeline of lambda_handler.py and storage.py:  *)
(* lambda_handler invocations (runs) that share one S3 object store.         *)
(* A run is modelled statement by statement; every S3 call (get_object,      *)
(* head_object, put_object) is one atomic step that returns or raises.       *)
EXTENDS Integers, Sequences, FiniteSets, TLC

(***************************************************************************)
(* Bounds of the model.                                                    *)
(***************************************************************************)
\* number of lambda_handler invocations in one behaviour
MaxRuns == 2
\* largest integer literal pd.read_csv is asked to recognise in a cell
MaxInt == 50
\* most data lines of a generated source file
MaxRows == 3
\* most records of one trigger event
MaxRecords == 2

Runs == 1..MaxRuns

(***************************************************************************)
(* CSV text.  An object body (a source file, or the text upload_file       *)
(* writes) is a header line and data lines, each a sequence of cell texts. *)
(***************************************************************************)
Csv(header, rows) == [header |-> header, rows |-> rows]

NoBytes == Csv(<<>>, <<>>)

\* Scenario A: three well-formed rows, two sharing user_id 7
FileA == Csv(<<"user_id", "email", "age">>,
             << <<"7", "a@x.io", "30">>, <<"7", "b@x.io", "31">>, <<"8", "c@x.io", "40">> >>)
\* Scenario B: the user_id column is absent
FileB == Csv(<<"email", "age">>, << <<"a@x.io", "30">> >>)
\* Scenario C, with a header and a cell that need normalizing:
\* one row without email, two valid rows sharing user_id 7
FileC == Csv(<<" User_ID ", "Email", "AGE">>,
             << <<"7", " A@X.io ", "30">>, <<"8", "", "40">>, <<"7", "b@x.io", "31">> >>)
\* every row invalid
FileD == Csv(<<"user_id", "email", "age">>, << <<"9", "", "20">> >>)
\* a header and no rows
FileE == Csv(<<"user_id", "email", "age">>, <<>>)

Payloads == <<FileA, FileB, FileC, FileD, FileE>>

FileBytes == {Payloads[i] : i \in 1..Len(Payloads)}

\* Generated source files: a canonical header and up to MaxRows data lines,
\* each with a present or missing identifier and email
RowTexts == {<<u, e, "30">> : u \in {"7", "8", ""}, e \in {"a@x.io", "b@x.io", ""}}

RowFiles ==
    {Csv(<<"user_id", "email", "age">>, rows) :
        rows \in UNION {[1..n -> RowTexts] : n \in 0..MaxRows}}

(***************************************************************************)
(* The tabular container (pandas.DataFrame): column names and rows of      *)
(* typed cells.  A cell is its dtype tag and its text as to_csv prints it. *)
(***************************************************************************)
Cell(t, s) == [t |-> t, s |-> s]

NaN == Cell("nan", "")

DataFrame(columns, rows) == [columns |-> columns, rows |-> rows]

NoFrame == DataFrame(<<>>, <<>>)

\* len(df)
len(df) == Len(df.rows)

\* the texts of the integers read_csv recognises
IntTexts == {ToString(n) : n \in 0..MaxInt}

IsIntStr(s) == s \in IntTexts

\* pandas infers one dtype per column: int64 when every cell is an integer,
\* float64 when integers are mixed with missing cells, object otherwise
IsNumericColumn(rows, j) ==
    /\ Len(rows) > 0
    /\ \A i \in 1..Len(rows) : rows[i][j] = "" \/ IsIntStr(rows[i][j])
    /\ \E i \in 1..Len(rows) : rows[i][j] # ""

HasMissing(rows, j) == \E i \in 1..Len(rows) : rows[i][j] = ""

ReadCell(rows, i, j) ==
    LET s == rows[i][j] IN
    IF s = "" THEN NaN
    ELSE IF IsNumericColumn(rows, j)
         THEN IF HasMissing(rows, j) THEN Cell("float", s \o ".0") ELSE Cell("int", s)
         ELSE Cell("str", s)

\* pd.read_csv(io.BytesIO(file_bytes))
load_into_dataframe(file_bytes) ==
    DataFrame(file_bytes.header,
              [i \in 1..Len(file_bytes.rows) |->
                  [j \in 1..Len(file_bytes.header) |-> ReadCell(file_bytes.rows, i, j)]])

\* df.to_csv(csv_buffer, index=False); csv_buffer.getvalue()
to_csv(df) ==
    Csv(df.columns,
        [i \in 1..Len(df.rows) |-> [j \in 1..Len(df.rows[i]) |-> df.rows[i][j].s]])


(***************************************************************************)
(* Collaborators whose modules (utils, cleaning, validation) are imported  *)
(* by lambda_handler.py and specified at their interface only.             *)
(***************************************************************************)
\* the text of cells i.. of a line, and of lines i.. of a file
RECURSIVE LineText(_, _)
LineText(line, i) ==
    IF i > Len(line) THEN "" ELSE line[i] \o "," \o LineText(line, i + 1)

RECURSIVE LinesText(_, _)
LinesText(lines, i) ==
    IF i > Len(lines) THEN "" ELSE LineText(lines[i], 1) \o ";" \o LinesText(lines, i + 1)

\* utils.calculate_hash: a digest of the bytes alone, distinct for distinct
\* bytes (the digest is written as the text it digests)
calculate_hash(file_bytes) ==
    "md5(" \o LineText(file_bytes.header, 1) \o ";" \o LinesText(file_bytes.rows, 1) \o ")"

\* strip and lower-case, on the texts the payloads use
CanonTable ==
    (" User_ID " :> "user_id") @@ ("Email" :> "email") @@ ("AGE" :> "age")
        @@ (" A@X.io " :> "a@x.io")

canon(s) == IF s \in DOMAIN CanonTable THEN CanonTable[s] ELSE s

\* cleaning.normalize_dataframe: canonical column names, canonical string cells
normalize_dataframe(df) ==
    DataFrame([j \in 1..Len(df.columns) |-> canon(df.columns[j])],
              [i \in 1..Len(df.rows) |->
                  [j \in 1..Len(df.rows[i]) |->
                      IF df.rows[i][j].t = "str"
                      THEN Cell("str", canon(df.rows[i][j].s))
                      ELSE df.rows[i][j]]])

RequiredColumns == {"user_id", "email", "age"}

ColumnNames(df) == {df.columns[j] : j \in 1..Len(df.columns)}

ColIndex(df, c) == CHOOSE j \in 1..Len(df.columns) : df.columns[j] = c

\* the column-level check: a required column is absent (ValueError)
SchemaError(df) == ~(RequiredColumns \subseteq ColumnNames(df))

\* the row-level check: every required field present, identifier and age numeric
RowValid(df, row) ==
    /\ \A c \in RequiredColumns : row[ColIndex(df, c)] # NaN
    /\ row[ColIndex(df, "user_id")].t \in {"int", "float"}
    /\ row[ColIndex(df, "age")].t \in {"int", "float"}

\* validation.validate_dataframe, when it returns: (valid_df, invalid_df)
validate_dataframe(df) ==
    LET ok(row) == RowValid(df, row)
        bad(row) == ~RowValid(df, row)
    IN  [valid_df   |-> DataFrame(df.columns, SelectSeq(df.rows, ok)),
         invalid_df |-> DataFrame(df.columns, SelectSeq(df.rows, bad))]

(***************************************************************************)
(* valid_df.drop_duplicates(subset=["user_id"]): pandas keeps the first    *)
(* row of each key and the order of the rows kept.                         *)
(***************************************************************************)
RECURSIVE KeepFirst(_, _, _)
KeepFirst(rows, j, seen) ==
    IF rows = <<>> THEN <<>>
    ELSE IF Head(rows)[j] \in seen
         THEN KeepFirst(Tail(rows), j, seen)
         ELSE <<Head(rows)>> \o KeepFirst(Tail(rows), j, seen \cup {Head(rows)[j]})

drop_duplicates(df, subset) ==
    DataFrame(df.columns, KeepFirst(df.rows, ColIndex(df, subset), {}))

(***************************************************************************)
(* State.  s3 is the object store: a function from the (bucket, key)       *)
(* pairs that hold an object to the object's body.  run[r] holds the       *)
(* locals of invocation r, its position (pc), the lines it logged, the S3  *)
(* calls it made and the invocations that had ended when it started.       *)
(***************************************************************************)
VARIABLES s3, run

vars == <<s3, run>>

Buckets == {"b1", "b2"}

\* the locations source files are delivered to
SourceLocations == {<<"b1", "raw/k1.csv">>, <<"b1", "raw/k2.csv">>, <<"b2", "raw/k1.csv">>}

\* one record of the event envelope
S3Record(bucket, key) ==
    [s3 |-> [bucket |-> [name |-> bucket], object |-> [key |-> key]]]

NoMetrics ==
    [file |-> "", hash |-> "", total_rows |-> 0, valid_rows |-> 0, invalid_rows |-> 0]

LogLine(msg, metrics) == [msg |-> msg, metrics |-> metrics]

Call(op, bucket, key, response, body) ==
    [op |-> op, bucket |-> bucket, key |-> key, response |-> response, body |-> body]

\* the positions a run ends in
Terminal == {"SkippedDuplicate", "SchemaFailed", "Reported", "Aborted"}

IdleRun ==
    [pc |-> "Idle", event |-> [Records |-> <<>>], bucket |-> "", key |-> "",
     file_bytes |-> NoBytes, file_hash |-> "", processed_key |-> "", error_key |-> "",
     df |-> NoFrame, total_rows |-> 0, schema_error |-> FALSE,
     valid_df |-> NoFrame, invalid_df |-> NoFrame, valid_rows |-> 0, invalid_rows |-> 0,
     log |-> <<>>, calls |-> <<>>, started_after |-> {}]

Init ==
    /\ s3 = <<>>
    /\ run = [r \in Runs |-> IdleRun]

(***************************************************************************)
(* storage.py                                                              *)
(***************************************************************************)
Exists(bucket, key) == <<bucket, key>> \in DOMAIN s3

\* what s3_client.get_object may answer
GetResponses(bucket, key) ==
    IF Exists(bucket, key) THEN {"200", "403"} ELSE {"404", "403"}

\* what s3_client.head_object may answer
HeadResponses(bucket, key) ==
    IF Exists(bucket, key) THEN {"200", "403", "ConnectionError"}
    ELSE {"404", "403", "ConnectionError"}

\* what s3_client.put_object may answer
PutResponses == {"200", "403"}

\* the answers botocore raises as botocore.exceptions.ClientError
ClientError == {"403", "404"}

\* file_exists, given head_object's answer: True, False, or the exception
\* passes through ("raise")
file_exists(response) ==
    IF response = "200" THEN "True"
    ELSE IF response \in ClientError THEN "False"
    ELSE "raise"

\* the store after put_object(Bucket=bucket, Key=key, Body=body) succeeded
put_object(bucket, key, body) ==
    [loc \in DOMAIN s3 \cup {<<bucket, key>>} |->
        IF loc = <<bucket, key>> THEN body ELSE s3[loc]]

\* upload_file(bucket, key, df) by run r, put_object answering response
upload_file(r, bucket, key, df, response, pc_done) ==
    LET body == to_csv(df) IN
    /\ s3' = IF response = "200" THEN put_object(bucket, key, body) ELSE s3
    /\ run' = [run EXCEPT ![r].pc = IF response = "200" THEN pc_done ELSE "Aborted",
                          ![r].calls = Append(@, Call("put", bucket, key, response, body))]

(***************************************************************************)
(* lambda_handler.py                                                       *)
(***************************************************************************)
\* Variant of extract_s3_event: (bucket, key) of the last record.
extract_s3_event_LastRecord(event) ==
    LET record == event.Records[Len(event.Records)] IN
    [bucket |-> record.s3.bucket.name, key |-> record.s3.object.key]

\* extract_s3_event(event): (bucket, key) of the first record
extract_s3_event(event) ==
    LET record == event.Records[1] IN
    [bucket |-> record.s3.bucket.name, key |-> record.s3.object.key]

\* An object is created at a source location and the trigger invokes
\* lambda_handler(event, context) as run r: lines 96-100.  Invocations are
\* numbered in the order they start.
ObjectCreated(r, loc, body, extra) ==
    LET event == [Records |-> <<S3Record(loc[1], loc[2])>> \o extra]
        first == extract_s3_event(event)
    IN  /\ run[r].pc = "Idle"
        /\ \A q \in Runs : q < r => run[q].pc # "Idle"
        /\ s3' = put_object(loc[1], loc[2], body)
        /\ run' = [run EXCEPT ![r].pc = "Started",
                              ![r].event = event,
                              ![r].bucket = first.bucket,
                              ![r].key = first.key,
                              ![r].started_after = {q \in Runs : run[q].pc \in Terminal},
                              ![r].log = Append(@, LogLine("Processing file", NoMetrics))]

\* Variant of Download: a failed download is tried once more.
Download_RetriesOnce(r) ==
    /\ run[r].pc = "Started"
    /\ \E response \in GetResponses(run[r].bucket, run[r].key) :
          run' = [run EXCEPT
                    ![r].pc = IF response = "200" THEN "Downloaded"
                              ELSE IF run[r].calls = <<>> THEN "Started" ELSE "Aborted",
                    ![r].file_bytes =
                        IF response = "200" THEN s3[<<run[r].bucket, run[r].key>>] ELSE @,
                    ![r].calls =
                        Append(@, Call("get", run[r].bucket, run[r].key, response, NoBytes))]
    /\ UNCHANGED s3

\* line 103: file_bytes = download_file(bucket, key)
Download(r) ==
    /\ run[r].pc = "Started"
    /\ \E response \in GetResponses(run[r].bucket, run[r].key) :
          run' = [run EXCEPT
                    ![r].pc = IF response = "200" THEN "Downloaded" ELSE "Aborted",
                    ![r].file_bytes =
                        IF response = "200" THEN s3[<<run[r].bucket, run[r].key>>] ELSE @,
                    ![r].calls =
                        Append(@, Call("get", run[r].bucket, run[r].key, response, NoBytes))]
    /\ UNCHANGED s3

\* Variant of ComputeHash: the locations are derived from the source key.
ComputeHash_FromSourceKey(r) ==
    /\ run[r].pc = "Downloaded"
    /\ run' = [run EXCEPT
                 ![r].pc = "HashComputed",
                 ![r].file_hash = calculate_hash(run[r].file_bytes),
                 ![r].processed_key = "processed/users_cleaned_" \o run[r].key,
                 ![r].error_key = "error/invalid_rows_" \o run[r].key]
    /\ UNCHANGED s3

\* lines 106-109: the fingerprint and the two locations derived from it
ComputeHash(r) ==
    LET file_hash == calculate_hash(run[r].file_bytes) IN
    /\ run[r].pc = "Downloaded"
    /\ run' = [run EXCEPT
                 ![r].pc = "HashComputed",
                 ![r].file_hash = file_hash,
                 ![r].processed_key = "processed/users_cleaned_" \o file_hash \o ".csv",
                 ![r].error_key = "error/invalid_rows_" \o file_hash \o ".csv"]
    /\ UNCHANGED s3

\* lines 112-118: the idempotency gate on the object at key, then parsing
GateOn(r, key) ==
    /\ run[r].pc = "HashComputed"
    /\ \E response \in HeadResponses(run[r].bucket, key) :
          LET exists == file_exists(response)
              df == load_into_dataframe(run[r].file_bytes)
              called == Append(run[r].calls,
                               Call("head", run[r].bucket, key, response, NoBytes))
          IN  run' = [run EXCEPT ![r] =
                 IF exists = "raise"
                 THEN [@ EXCEPT !.pc = "Aborted", !.calls = called]
                 ELSE IF exists = "True"
                 THEN [@ EXCEPT !.pc = "SkippedDuplicate", !.calls = called,
                                !.log = Append(@, LogLine("File already processed. Skipping.",
                                                          NoMetrics))]
                 ELSE [@ EXCEPT !.pc = "Parsed", !.calls = called,
                                !.df = df, !.total_rows = len(df)]]
    /\ UNCHANGED s3

\* Variant of Gate: the existence check looks at the error location.
Gate_OnErrorKey(r) == GateOn(r, run[r].error_key)

Gate(r) == GateOn(r, run[r].processed_key)

\* line 121: df = normalize_dataframe(df)
Normalize(r) ==
    /\ run[r].pc = "Parsed"
    /\ run' = [run EXCEPT ![r].pc = "Normalized",
                          ![r].df = normalize_dataframe(run[r].df)]
    /\ UNCHANGED s3

\* lines 124-127: validate_dataframe returns the partition or raises ValueError,
\* which is caught and logged
Validate(r) ==
    /\ run[r].pc = "Normalized"
    /\ run' = [run EXCEPT ![r] =
          IF SchemaError(run[r].df)
          THEN [@ EXCEPT !.pc = "Validated", !.schema_error = TRUE,
                         !.log = Append(@, LogLine("Schema validation failed", NoMetrics))]
          ELSE [@ EXCEPT !.pc = "Validated",
                         !.valid_df = validate_dataframe(run[r].df).valid_df,
                         !.invalid_df = validate_dataframe(run[r].df).invalid_df]]
    /\ UNCHANGED s3

\* Variant of PersistWholeFile: the except branch uploads invalid_df.
PersistWholeFile_InvalidRows(r) ==
    /\ run[r].pc = "Validated"
    /\ run[r].schema_error
    /\ \E response \in PutResponses :
          upload_file(r, run[r].bucket, run[r].error_key, run[r].invalid_df, response,
                      "SchemaFailed")

\* Variant of PersistWholeFile: the whole frame goes to the processed location.
PersistWholeFile_AtProcessedKey(r) ==
    /\ run[r].pc = "Validated"
    /\ run[r].schema_error
    /\ \E response \in PutResponses :
          upload_file(r, run[r].bucket, run[r].processed_key, run[r].df, response,
                      "SchemaFailed")

\* lines 128-129: the except branch uploads the whole frame and returns
PersistWholeFile(r) ==
    /\ run[r].pc = "Validated"
    /\ run[r].schema_error
    /\ \E response \in PutResponses :
          upload_file(r, run[r].bucket, run[r].error_key, run[r].df, response,
                      "SchemaFailed")

\* Variant of Deduplicate: drop_duplicates(keep="last").
Deduplicate_KeepsLast(r) ==
    LET reversed(rows) == [i \in 1..Len(rows) |-> rows[Len(rows) + 1 - i]]
        valid_df == DataFrame(run[r].valid_df.columns,
                       reversed(drop_duplicates(
                           DataFrame(run[r].valid_df.columns, reversed(run[r].valid_df.rows)),
                           "user_id").rows))
    IN  /\ run[r].pc = "Validated"
        /\ ~run[r].schema_error
        /\ run' = [run EXCEPT ![r].pc = "Deduplicated",
                              ![r].valid_df = valid_df,
                              ![r].valid_rows = len(valid_df),
                              ![r].invalid_rows = len(run[r].invalid_df)]
        /\ UNCHANGED s3

\* Variant of Deduplicate: drop_duplicates is left out.
Deduplicate_Omitted(r) ==
    /\ run[r].pc = "Validated"
    /\ ~run[r].schema_error
    /\ run' = [run EXCEPT ![r].pc = "Deduplicated",
                          ![r].valid_rows = len(run[r].valid_df),
                          ![r].invalid_rows = len(run[r].invalid_df)]
    /\ UNCHANGED s3

\* Variant of Deduplicate: valid_rows is counted before drop_duplicates.
Deduplicate_CountsFirst(r) ==
    LET valid_df == drop_duplicates(run[r].valid_df, "user_id") IN
    /\ run[r].pc = "Validated"
    /\ ~run[r].schema_error
    /\ run' = [run EXCEPT ![r].pc = "Deduplicated",
                          ![r].valid_df = valid_df,
                          ![r].valid_rows = len(run[r].valid_df),
                          ![r].invalid_rows = len(run[r].invalid_df)]
    /\ UNCHANGED s3

\* lines 132-135: deduplicate the valid partition, count both partitions
Deduplicate(r) ==
    LET valid_df == drop_duplicates(run[r].valid_df, "user_id") IN
    /\ run[r].pc = "Validated"
    /\ ~run[r].schema_error
    /\ run' = [run EXCEPT ![r].pc = "Deduplicated",
                          ![r].valid_df = valid_df,
                          ![r].valid_rows = len(valid_df),
                          ![r].invalid_rows = len(run[r].invalid_df)]
    /\ UNCHANGED s3

\* Variant of PersistClean: the upload is not guarded by valid_rows > 0.
PersistClean_Unguarded(r) ==
    /\ run[r].pc = "Deduplicated"
    /\ \E response \in PutResponses :
          upload_file(r, run[r].bucket, run[r].processed_key, run[r].valid_df,
                      response, "CleanPersisted")

\* Variant of PersistClean: the valid partition is persisted as soon as it is
\* validated, deduplicated or not.
PersistClean_FromValidated(r) ==
    /\ \/ run[r].pc = "Deduplicated"
       \/ run[r].pc = "Validated" /\ ~run[r].schema_error
    /\ IF len(run[r].valid_df) > 0
       THEN \E response \in PutResponses :
               upload_file(r, run[r].bucket, run[r].processed_key, run[r].valid_df,
                           response, "CleanPersisted")
       ELSE /\ run' = [run EXCEPT ![r].pc = "CleanPersisted"]
            /\ UNCHANGED s3

\* lines 138-139: if valid_rows > 0: upload_file(bucket, processed_key, valid_df)
PersistClean(r) ==
    /\ run[r].pc = "Deduplicated"
    /\ IF run[r].valid_rows > 0
       THEN \E response \in PutResponses :
               upload_file(r, run[r].bucket, run[r].processed_key, run[r].valid_df,
                           response, "CleanPersisted")
       ELSE /\ run' = [run EXCEPT ![r].pc = "CleanPersisted"]
            /\ UNCHANGED s3

\* Variant of PersistInvalid: the invalid rows are written over the source object.
PersistInvalid_AtSourceKey(r) ==
    /\ run[r].pc = "CleanPersisted"
    /\ IF run[r].invalid_rows > 0
       THEN \E response \in PutResponses :
               upload_file(r, run[r].bucket, run[r].key, run[r].invalid_df,
                           response, "Persisted")
       ELSE /\ run' = [run EXCEPT ![r].pc = "Persisted"]
            /\ UNCHANGED s3

\* Variant of PersistInvalid: the invalid rows go to the processed location.
PersistInvalid_AtProcessedKey(r) ==
    /\ run[r].pc = "CleanPersisted"
    /\ IF run[r].invalid_rows > 0
       THEN \E response \in PutResponses :
               upload_file(r, run[r].bucket, run[r].processed_key, run[r].invalid_df,
                           response, "Persisted")
       ELSE /\ run' = [run EXCEPT ![r].pc = "Persisted"]
            /\ UNCHANGED s3

\* lines 142-143: if invalid_rows > 0: upload_file(bucket, error_key, invalid_df)
PersistInvalid(r) ==
    /\ run[r].pc = "CleanPersisted"
    /\ IF run[r].invalid_rows > 0
       THEN \E response \in PutResponses :
               upload_file(r, run[r].bucket, run[r].error_key, run[r].invalid_df,
                           response, "Persisted")
       ELSE /\ run' = [run EXCEPT ![r].pc = "Persisted"]
            /\ UNCHANGED s3

\* Variant of Report: the metrics record is logged after a skip as well.
Report_AfterSkip(r) ==
    /\ run[r].pc \in {"Persisted", "SkippedDuplicate"}
    /\ run' = [run EXCEPT
                 ![r].pc = "Reported",
                 ![r].log = Append(@, LogLine("metrics",
                               [file |-> run[r].key, hash |-> run[r].file_hash,
                                total_rows |-> run[r].total_rows,
                                valid_rows |-> run[r].valid_rows,
                                invalid_rows |-> run[r].invalid_rows]))]
    /\ UNCHANGED s3

\* lines 146-155: the metrics record (processing_time_seconds, a clock
\* reading, is left out)
Report(r) ==
    /\ run[r].pc = "Persisted"
    /\ run' = [run EXCEPT
                 ![r].pc = "Reported",
                 ![r].log = Append(@, LogLine("metrics",
                               [file |-> run[r].key, hash |-> run[r].file_hash,
                                total_rows |-> run[r].total_rows,
                                valid_rows |-> run[r].valid_rows,
                                invalid_rows |-> run[r].invalid_rows]))]
    /\ UNCHANGED s3

Next ==
    \E r \in Runs :
        \/ \E loc \in SourceLocations, body \in FileBytes :
              ObjectCreated(r, loc, body, <<>>)
        \/ Download(r)
        \/ ComputeHash(r)
        \/ Gate(r)
        \/ Normalize(r)
        \/ Validate(r)
        \/ PersistWholeFile(r)
        \/ Deduplicate(r)
        \/ PersistClean(r)
        \/ PersistInvalid(r)
        \/ Report(r)

Spec == Init /\ [][Next]_vars

\* a step of run r after its invocation
Step(r) ==
    \/ Download(r)
    \/ ComputeHash(r)
    \/ Gate(r)
    \/ Normalize(r)
    \/ Validate(r)
    \/ PersistWholeFile(r)
    \/ Deduplicate(r)
    \/ PersistClean(r)
    \/ PersistInvalid(r)
    \/ Report(r)

\* One invocation, on a generated source file or one of the payloads.
NextRows ==
    \/ \E body \in RowFiles \cup FileBytes :
          ObjectCreated(1, <<"b1", "raw/k1.csv">>, body, <<>>)
    \/ Step(1)

SpecRows == Init /\ [][NextRows]_vars

(***************************************************************************)
(* Vocabulary of the properties.                                           *)
(***************************************************************************)
\* the ends that are not a propagated transport failure
Completed == {"SkippedDuplicate", "SchemaFailed", "Reported"}

\* the calls of run r that match a predicate on calls
CallsOf(r, op) == SelectSeq(run[r].calls, LAMBDA c : c.op = op)

\* the uploads of run r that S3 accepted
Uploads(r) == SelectSeq(run[r].calls, LAMBDA c : c.op = "put" /\ c.response = "200")

\* every S3 call run r made so far was answered without an error other than
\* head_object's NotFound
FailureFree(r) == \A i \in 1..Len(run[r].calls) : run[r].calls[i].response \in {"200", "404"}

\* the runs that downloaded bytes b from bucket
RunsOn(bucket, b) == {r \in Runs : run[r].bucket = bucket /\ run[r].file_bytes = b}

\* the output locations of section 6, for a fingerprint
ProcessedLocation(fingerprint) == "processed/users_cleaned_" \o fingerprint \o ".csv"

ErrorLocation(fingerprint) == "error/invalid_rows_" \o fingerprint \o ".csv"

\* the object at a location, as a sequence of zero or one bodies
Stored(bucket, key) == IF Exists(bucket, key) THEN <<s3[<<bucket, key>>]>> ELSE <<>>

\* the frames one failure-free run computes from bytes b
Normalized(b) == normalize_dataframe(load_into_dataframe(b))

CleanOf(b) == drop_duplicates(validate_dataframe(Normalized(b)).valid_df, "user_id")

InvalidOf(b) == validate_dataframe(Normalized(b)).invalid_df

\* the artifacts one failure-free run on b, alone on an empty store, leaves
SingleRunProcessed(b) ==
    IF ~SchemaError(Normalized(b)) /\ len(CleanOf(b)) > 0 THEN <<to_csv(CleanOf(b))>> ELSE <<>>

SingleRunError(b) ==
    IF SchemaError(Normalized(b)) THEN <<to_csv(Normalized(b))>>
    ELSE IF len(InvalidOf(b)) > 0 THEN <<to_csv(InvalidOf(b))>> ELSE <<>>

\* run r1 was the first invocation and every other invocation started after
\* it had ended: r1 ran alone, on an empty store
RanAlone(r1) ==
    /\ run[r1].pc \in Terminal
    /\ run[r1].started_after = {}
    /\ \A q \in Runs \ {r1} : run[q].pc = "Idle" \/ r1 \in run[q].started_after

\* r2 started after r1 had ended, and downloaded the bytes r1 had downloaded,
\* from the same bucket
SecondRunOnSameBytes(r1, r2) ==
    /\ r1 # r2
    /\ r1 \in run[r2].started_after
    /\ run[r2].file_bytes \in FileBytes
    /\ run[r2].file_bytes = run[r1].file_bytes
    /\ run[r2].bucket = run[r1].bucket

HoldsSingleRunResult(bucket, b) ==
    /\ Stored(bucket, ProcessedLocation(calculate_hash(b))) = SingleRunProcessed(b)
    /\ Stored(bucket, ErrorLocation(calculate_hash(b))) = SingleRunError(b)

(***************************************************************************)
(* C2.  Duplicate runs, in any interleaving: once the runs on the same     *)
(* bytes in a bucket, two or more, have all ended without a transport      *)
(* failure, the processed and error locations of that fingerprint hold     *)
(* exactly the objects a single run on those bytes leaves.                 *)
(***************************************************************************)
C2_DuplicateRunsLeaveSingleRunResult ==
    \A bucket \in Buckets, b \in FileBytes :
        ( /\ Cardinality(RunsOn(bucket, b)) >= 2
          /\ \A r \in RunsOn(bucket, b) : run[r].pc \in Completed )
        => HoldsSingleRunResult(bucket, b)

\* two runs on the same bytes both passed the gate and both uploaded the
\* processed and the error artifact
C2_Witness ==
    \E r1, r2 \in Runs :
        /\ r1 # r2
        /\ run[r1].bucket = run[r2].bucket
        /\ run[r1].file_bytes = run[r2].file_bytes
        /\ run[r1].pc = "Reported" /\ run[r2].pc = "Reported"
        /\ Len(Uploads(r1)) = 2 /\ Len(Uploads(r2)) = 2

(***************************************************************************)
(* C3.  Re-triggering after a failure: when a run on bytes b was aborted   *)
(* by a transport failure, a run on b that started later ended without     *)
(* failure, and no run on b is still under way, the store holds exactly    *)
(* the artifacts of one failure-free run on b.                             *)
(***************************************************************************)
C3_RetriggerAfterFailureIsSafe ==
    \A bucket \in Buckets, b \in FileBytes :
        ( /\ \E r1, r2 \in RunsOn(bucket, b) :
                /\ run[r1].pc = "Aborted"
                /\ r1 \in run[r2].started_after
                /\ run[r2].pc \in Completed
          /\ \A r \in RunsOn(bucket, b) : run[r].pc \in Terminal )
        => HoldsSingleRunResult(bucket, b)

(***************************************************************************)
(* C4.  No partial output: when a run has been aborted by a transport      *)
(* failure, no object it uploaded is in the store.                         *)
(***************************************************************************)
C4_AbortedRunLeavesNoOutput ==
    \A r \in Runs :
        run[r].pc = "Aborted" =>
            \A i \in 1..Len(Uploads(r)) :
                Stored(Uploads(r)[i].bucket, Uploads(r)[i].key) # <<Uploads(r)[i].body>>

\* the lines of run r's log with a given message
Logged(r, msg) == SelectSeq(run[r].log, LAMBDA l : l.msg = msg)

SkipNotice == "File already processed. Skipping."

\* run r made progress past validation
PastValidation(r) ==
    run[r].pc \in {"Validated", "SchemaFailed", "Deduplicated", "CleanPersisted",
                   "Persisted", "Reported"}
        \/ (run[r].pc = "Aborted" /\ Len(CallsOf(r, "put")) > 0)

(***************************************************************************)
(* C5.  Every invocation that has ended ended in exactly one of three      *)
(* ways: with one metrics record (normal completion, and the SchemaError   *)
(* branch with valid_rows = 0 and invalid_rows = 0), with the skip notice, *)
(* or with a propagated transport failure.                                 *)
(***************************************************************************)
C5_MetricsSkipOrFailure ==
    \A r \in Runs :
        run[r].pc \in Terminal =>
            /\ Len(Logged(r, "metrics")) + Len(Logged(r, SkipNotice)) =
                  (IF run[r].pc = "Aborted" THEN 0 ELSE 1)
            /\ (run[r].pc \in {"Reported", "SchemaFailed"} => Len(Logged(r, "metrics")) = 1)
            /\ (run[r].pc = "SchemaFailed" =>
                    \A i \in 1..Len(Logged(r, "metrics")) :
                        /\ Logged(r, "metrics")[i].metrics.valid_rows = 0
                        /\ Logged(r, "metrics")[i].metrics.invalid_rows = 0)
            /\ (run[r].pc = "SkippedDuplicate" => Len(Logged(r, SkipNotice)) = 1)

(***************************************************************************)
(* C6.  When the gate finds an object at the processed location (          *)
(* head_object answers 200), the run ends in SkippedDuplicate there: it    *)
(* takes no further step, has uploaded nothing, has not parsed,            *)
(* normalized, validated or deduplicated, and has logged the skip notice   *)
(* and no metrics record.                                                  *)
(***************************************************************************)
GateFound(r) ==
    \E i \in 1..Len(run[r].calls) :
        run[r].calls[i].op = "head" /\ run[r].calls[i].response = "200"

C7_SchemaErrorPersistsWholeFile ==
    \A r \in Runs :
        (PastValidation(r) /\ SchemaError(Normalized(run[r].file_bytes))) =>
            /\ run[r].pc \in {"Validated", "SchemaFailed", "Aborted"}
            /\ Len(CallsOf(r, "put")) <= 1
            /\ \A i \in 1..Len(CallsOf(r, "put")) :
                  /\ CallsOf(r, "put")[i].bucket = run[r].bucket
                  /\ CallsOf(r, "put")[i].key =
                        ErrorLocation(calculate_hash(run[r].file_bytes))
                  /\ CallsOf(r, "put")[i].body = to_csv(Normalized(run[r].file_bytes))
            /\ (run[r].pc = "SchemaFailed" <=> Len(Uploads(r)) = 1)
            /\ (run[r].pc = "Aborted" <=>
                    (Len(CallsOf(r, "put")) = 1 /\ Len(Uploads(r)) = 0))
            /\ run[r].valid_df = NoFrame /\ run[r].valid_rows = 0

\* a run ended in SchemaFailed with the whole file at the error location
C7_Witness ==
    \E r \in Runs :
        /\ run[r].pc = "SchemaFailed"
        /\ run[r].file_bytes = FileB
        /\ Stored(run[r].bucket, run[r].error_key) = <<to_csv(Normalized(FileB))>>

\* the uploads of run r that S3 accepted at a key
UploadsAt(r, key) == SelectSeq(Uploads(r), LAMBDA c : c.key = key)

(***************************************************************************)
(* C8.  A run that passed the gate and validated without schema error has, *)
(* once past its persistence steps, uploaded the deduplicated valid        *)
(* partition to the processed location if and only if that partition is    *)
(* not empty, and the invalid partition to the error location if and only  *)
(* if it is not empty: nothing, one or both, and nothing else.             *)
(***************************************************************************)
C8_PartitionsPersistedIffNonEmpty ==
    \A r \in Runs :
        ( /\ run[r].pc \in {"Persisted", "Reported"}
          /\ ~SchemaError(Normalized(run[r].file_bytes)) )
        => LET b == run[r].file_bytes
               processed == UploadsAt(r, ProcessedLocation(calculate_hash(b)))
               error == UploadsAt(r, ErrorLocation(calculate_hash(b)))
           IN  /\ Len(processed) = (IF len(CleanOf(b)) > 0 THEN 1 ELSE 0)
               /\ Len(error) = (IF len(InvalidOf(b)) > 0 THEN 1 ELSE 0)
               /\ \A i \in 1..Len(processed) : processed[i].body = to_csv(CleanOf(b))
               /\ \A i \in 1..Len(error) : error[i].body = to_csv(InvalidOf(b))
               /\ Len(CallsOf(r, "put")) = Len(processed) + Len(error)

\* one run uploaded nothing (a file without rows) and another uploaded both
\* partitions
C8_Witness ==
    \E r1, r2 \in Runs :
        /\ run[r1].pc = "Reported" /\ run[r1].file_bytes = FileE /\ Len(Uploads(r1)) = 0
        /\ run[r2].pc = "Reported" /\ run[r2].file_bytes = FileC /\ Len(Uploads(r2)) = 2

\* run r has derived its output locations
HasLocations(r) == run[r].file_bytes \in FileBytes /\ run[r].pc # "Downloaded"

(***************************************************************************)
(* C9.  The processed and error locations of a run are                     *)
(* processed/users_cleaned_{fingerprint}.csv and                           *)
(* error/invalid_rows_{fingerprint}.csv of the fingerprint of the bytes it *)
(* downloaded, whatever its source key.  Runs on the same bytes derive the *)
(* same two locations; runs on bytes with different fingerprints derive    *)
(* different locations and never upload to each other's.                   *)
(***************************************************************************)
C9_LocationsFromFingerprintAlone ==
    /\ \A r \in Runs :
          HasLocations(r) =>
              /\ run[r].processed_key = ProcessedLocation(calculate_hash(run[r].file_bytes))
              /\ run[r].error_key = ErrorLocation(calculate_hash(run[r].file_bytes))
              /\ \A i \in 1..Len(CallsOf(r, "put")) :
                    CallsOf(r, "put")[i].key \in {run[r].processed_key, run[r].error_key}
    /\ \A r1, r2 \in Runs :
          (HasLocations(r1) /\ HasLocations(r2)) =>
              /\ run[r1].file_bytes = run[r2].file_bytes =>
                    /\ run[r1].processed_key = run[r2].processed_key
                    /\ run[r1].error_key = run[r2].error_key
              /\ calculate_hash(run[r1].file_bytes) # calculate_hash(run[r2].file_bytes) =>
                    /\ {run[r1].processed_key, run[r1].error_key}
                          \cap {run[r2].processed_key, run[r2].error_key} = {}
                    /\ \A i \in 1..Len(CallsOf(r1, "put")) :
                          CallsOf(r1, "put")[i].key
                              \notin {run[r2].processed_key, run[r2].error_key}

\* two runs triggered under the same source key downloaded different bytes
\* and each uploaded both its artifacts
C9_Witness ==
    \E r1, r2 \in Runs :
        /\ run[r1].bucket = run[r2].bucket /\ run[r1].key = run[r2].key
        /\ run[r1].file_bytes = FileA /\ run[r2].file_bytes = FileC
        /\ Len(Uploads(r1)) = 1 /\ Len(Uploads(r2)) = 2

(***************************************************************************)
(* C10.  file_exists answers True when head_object finds the object,       *)
(* answers False only when head_object reports NotFound (404), and lets    *)
(* every other error through, which aborts the run at the gate.            *)
(***************************************************************************)
C10_ExistenceCheckPropagatesOtherErrors ==
    \A r \in Runs :
        \A i \in 1..Len(run[r].calls) :
            run[r].calls[i].op = "head" =>
                /\ run[r].calls[i].response = "200" => run[r].pc = "SkippedDuplicate"
                /\ run[r].calls[i].response = "404" => run[r].pc \notin {"SkippedDuplicate"}
                /\ run[r].calls[i].response \notin {"200", "404"} =>
                      (run[r].pc = "Aborted" /\ i = Len(run[r].calls))

\* the identifier of a row of frame df
UserId(df, row) == row[ColIndex(df, "user_id")]

\* the rows of a frame that are the first with their identifier, in the
\* frame's order
FirstOccurrences(df) ==
    LET first == {i \in 1..Len(df.rows) :
                     \A k \in 1..(i - 1) : UserId(df, df.rows[k]) # UserId(df, df.rows[i])}
        place == CHOOSE f \in [1..Cardinality(first) -> first] :
                     \A a, b \in 1..Cardinality(first) : a < b => f[a] < f[b]
    IN  [a \in 1..Cardinality(first) |-> df.rows[place[a]]]

\* the valid partition of the bytes a run downloaded, before deduplication
ValidOf(b) == validate_dataframe(Normalized(b)).valid_df

\* run r has deduplicated
PastDeduplication(r) ==
    run[r].pc \in {"Deduplicated", "CleanPersisted", "Persisted", "Reported"}
        \/ (run[r].pc = "Aborted" /\ ~run[r].schema_error /\ Len(CallsOf(r, "put")) > 0)

(***************************************************************************)
(* C13.  After deduplication valid_df holds exactly one record for each    *)
(* user_id of the valid partition, that record is the first of the         *)
(* partition with that user_id, and the records kept are in the            *)
(* partition's order; the result is a function of the input bytes.         *)
(***************************************************************************)
C13_DeduplicationKeepsFirst ==
    \A r \in Runs :
        PastDeduplication(r) =>
            LET valid == ValidOf(run[r].file_bytes)
                kept == run[r].valid_df
            IN  /\ kept.columns = valid.columns
                /\ \A i \in 1..Len(valid.rows) :
                      Cardinality({k \in 1..Len(kept.rows) :
                          UserId(kept, kept.rows[k]) = UserId(valid, valid.rows[i])}) = 1
                /\ \A k \in 1..Len(kept.rows) :
                      \E i \in 1..Len(valid.rows) :
                          /\ valid.rows[i] = kept.rows[k]
                          /\ \A j \in 1..(i - 1) :
                                UserId(valid, valid.rows[j]) # UserId(valid, valid.rows[i])
                /\ kept.rows = FirstOccurrences(valid)
                /\ run[r].valid_rows = Len(FirstOccurrences(valid))

\* a run deduplicated three valid rows with one user_id and different emails
C13_Witness ==
    \E r \in Runs :
        /\ PastDeduplication(r)
        /\ run[r].file_bytes.rows =
              << <<"7", "a@x.io", "30">>, <<"7", "b@x.io", "30">>, <<"7", "a@x.io", "30">> >>
        /\ to_csv(run[r].valid_df).rows = << <<"7", "a@x.io", "30">> >>

\* the records drop_duplicates removes from the valid partition of bytes b
RemovedAsDuplicate(b) ==
    Len(ValidOf(b).rows)
        - Cardinality({UserId(ValidOf(b), ValidOf(b).rows[i]) : i \in 1..Len(ValidOf(b).rows)})

(***************************************************************************)
(* C17.  In every metrics record a run emits, total_rows is the number of  *)
(* data rows parsed, valid_rows + invalid_rows <= total_rows, and          *)
(* valid_rows + invalid_rows is total_rows less the number of records      *)
(* removed from the valid partition as duplicates of a user_id; the sum    *)
(* equals total_rows exactly when no record was removed.                   *)
(***************************************************************************)
C17_MetricsCountRows ==
    \A r \in Runs :
        \A i \in 1..Len(Logged(r, "metrics")) :
            LET metrics == Logged(r, "metrics")[i].metrics
                b == run[r].file_bytes
            IN  /\ metrics.total_rows = Len(b.rows)
                /\ metrics.valid_rows + metrics.invalid_rows <= metrics.total_rows
                /\ metrics.valid_rows + metrics.invalid_rows =
                      metrics.total_rows - RemovedAsDuplicate(b)
                /\ (metrics.valid_rows + metrics.invalid_rows = metrics.total_rows
                       <=> RemovedAsDuplicate(b) = 0)
                /\ metrics.invalid_rows = Len(InvalidOf(b).rows)

\* a metrics record of three rows: a valid row, its duplicate and an invalid row
C17_Witness ==
    \E r \in Runs :
        \E i \in 1..Len(Logged(r, "metrics")) :
            /\ Logged(r, "metrics")[i].metrics.total_rows = 3
            /\ Logged(r, "metrics")[i].metrics.valid_rows = 1
            /\ Logged(r, "metrics")[i].metrics.invalid_rows = 1

\* The stage of the run's state machine a position belongs to: between its
\* two persistence steps a run is still leaving Deduplicated.
Stage(pc) == IF pc = "CleanPersisted" THEN "Deduplicated" ELSE pc

\* the edges of the state machine of section 4.5, and the invocation
StageEdges ==
    {<<"Idle", "Started">>, <<"Started", "Downloaded">>, <<"Downloaded", "HashComputed">>,
     <<"HashComputed", "SkippedDuplicate">>, <<"HashComputed", "Parsed">>,
     <<"Parsed", "Normalized">>, <<"Normalized", "Validated">>,
     <<"Validated", "SchemaFailed">>, <<"Validated", "Deduplicated">>,
     <<"Deduplicated", "Persisted">>, <<"Persisted", "Reported">>}

\* run r makes an S3 call of kind op in this step
Calls(r, op) ==
    /\ Len(run'[r].calls) = Len(run[r].calls) + 1
    /\ run'[r].calls[Len(run'[r].calls)].op = op

(***************************************************************************)
(* C11.  A run changes stage only along the edges Started -> Downloaded -> *)
(* HashComputed -> (SkippedDuplicate | Parsed) -> Normalized -> Validated  *)
(* -> (SchemaFailed | Deduplicated) -> Persisted -> Reported, or leaves    *)
(* them by a propagated transport failure.  The existence check is made    *)
(* in HashComputed, before anything is parsed, and an upload is made only  *)
(* after the existence check answered and validation completed.            *)
(***************************************************************************)
C11_StagesInOrder ==
    [][\A r \in Runs :
          /\ Stage(run'[r].pc) # Stage(run[r].pc) =>
                \/ <<Stage(run[r].pc), Stage(run'[r].pc)>> \in StageEdges
                \/ run'[r].pc = "Aborted" /\ run[r].pc \notin Terminal \cup {"Idle"}
          /\ Calls(r, "get") => run[r].pc = "Started"
          /\ Calls(r, "head") =>
                /\ run[r].pc = "HashComputed"
                /\ run[r].df = NoFrame /\ run[r].file_hash # ""
          /\ Calls(r, "put") =>
                /\ Len(CallsOf(r, "head")) = 1
                /\ Stage(run[r].pc) \in {"Validated", "Deduplicated"}
                /\ Stage(run[r].pc) = "Validated" => run[r].schema_error
       ]_vars

\* one run went through every stage to Reported and uploaded twice, another
\* left Validated for SchemaFailed
C11_Witness ==
    \E r1, r2 \in Runs :
        /\ run[r1].pc = "Reported" /\ Len(Uploads(r1)) = 2
        /\ run[r2].pc = "SchemaFailed"

\* The handler runs to its end once invoked: the runtime executes it
\* statement by statement and every storage call returns or raises.
SpecFair == Spec /\ \A r \in Runs : WF_vars(Step(r))

\* how far along the handler's text a position is
Rank(pc) ==
    CASE pc = "Idle" -> 0
      [] pc = "Started" -> 1
      [] pc = "Downloaded" -> 2
      [] pc = "HashComputed" -> 3
      [] pc \in {"SkippedDuplicate", "Parsed"} -> 4
      [] pc = "Normalized" -> 5
      [] pc = "Validated" -> 6
      [] pc \in {"SchemaFailed", "Deduplicated"} -> 7
      [] pc = "CleanPersisted" -> 8
      [] pc = "Persisted" -> 9
      [] pc = "Reported" -> 10
      [] pc = "Aborted" -> 11

WithoutProcessedArtifact(b) == b \in FileBytes /\ SingleRunProcessed(b) = <<>>

ProcessedKeys == {ProcessedLocation(calculate_hash(b)) : b \in FileBytes}

\* the user_id cells of a CSV body, line by line
UserIdTexts(body) ==
    LET c == CHOOSE i \in 1..Len(body.header) : body.header[i] = "user_id"
    IN  [i \in 1..Len(body.rows) |-> body.rows[i][c]]

(***************************************************************************)
(* C16.  In every reachable store, whatever runs have run and however they *)
(* interleaved, each object at a processed location has a user_id column,  *)
(* at least one record, and no two records with the same user_id.          *)
(***************************************************************************)
C16_ProcessedObjectsCleanAndUnique ==
    \A loc \in DOMAIN s3 :
        loc[2] \in ProcessedKeys =>
            LET body == s3[loc] IN
            /\ \E i \in 1..Len(body.header) : body.header[i] = "user_id"
            /\ Len(body.rows) > 0
            /\ \A i, k \in 1..Len(body.rows) :
                  i # k => UserIdTexts(body)[i] # UserIdTexts(body)[k]

\* a processed object of two records is stored, uploaded by a run whose
\* valid partition held a duplicated user_id, and by a second run as well
C16_Witness ==
    \E r1, r2 \in Runs :
        /\ r1 # r2
        /\ Exists(run[r1].bucket, run[r1].processed_key)
        /\ Len(s3[<<run[r1].bucket, run[r1].processed_key>>].rows) = 2
        /\ run[r1].file_bytes \in FileBytes
        /\ RemovedAsDuplicate(run[r1].file_bytes) > 0
        /\ Len(UploadsAt(r1, run[r1].processed_key)) = 1
        /\ run[r2].bucket = run[r1].bucket
        /\ Len(UploadsAt(r2, run[r1].processed_key)) = 1

(***************************************************************************)
(* Events of several records: one notification that names up to           *)
(* MaxRecords objects created together.                                    *)
(***************************************************************************)
\* what one notification reports: the objects created, in the order of its
\* records, each a location and the bytes put there
Created(loc, body) == [loc |-> loc, body |-> body]

Batches ==
    UNION {{batch \in [1..n -> {Created(loc, body) : loc \in SourceLocations, body \in FileBytes}] :
               \A i, k \in 1..n : i # k => batch[i].loc # batch[k].loc} : n \in 1..MaxRecords}

\* the objects of a batch are created and the trigger invokes
\* lambda_handler(event, context) as run r with one record per object:
\* lines 96-100
ObjectsCreated(r, batch) ==
    LET event == [Records |-> [i \in 1..Len(batch) |->
                                  S3Record(batch[i].loc[1], batch[i].loc[2])]]
        first == extract_s3_event(event)
    IN  /\ run[r].pc = "Idle"
        /\ \A q \in Runs : q < r => run[q].pc # "Idle"
        /\ s3' = [loc \in DOMAIN s3 \cup {batch[i].loc : i \in 1..Len(batch)} |->
                    IF \E i \in 1..Len(batch) : batch[i].loc = loc
                    THEN (CHOOSE c \in {batch[i] : i \in 1..Len(batch)} : c.loc = loc).body
                    ELSE s3[loc]]
        /\ run' = [run EXCEPT ![r].pc = "Started",
                              ![r].event = event,
                              ![r].bucket = first.bucket,
                              ![r].key = first.key,
                              ![r].started_after = {q \in Runs : run[q].pc \in Terminal},
                              ![r].log = Append(@, LogLine("Processing file", NoMetrics))]

NextEvents ==
    \/ \E batch \in Batches : ObjectsCreated(1, batch)
    \/ Step(1)

SpecEvents == Init /\ [][NextEvents]_vars

\* the location record i of run r's event names
RecordLocation(r, i) ==
    <<run[r].event.Records[i].s3.bucket.name, run[r].event.Records[i].s3.object.key>>

(***************************************************************************)
(* C12.  A run whose event carries n >= 1 records works on the bucket and  *)
(* key of the first record: its download is of that object, and every      *)
(* existence check and upload is in that bucket.  The locations of the     *)
(* records 2..n are never the target of a call of the run, and the         *)
(* objects there are left as they are.                                     *)
(***************************************************************************)
C12_OnlyFirstRecordHonored ==
    /\ [](\A r \in Runs :
             run[r].pc # "Idle" =>
                /\ <<run[r].bucket, run[r].key>> = RecordLocation(r, 1)
                /\ \A c \in 1..Len(run[r].calls) :
                      LET call == run[r].calls[c] IN
                      /\ call.bucket = RecordLocation(r, 1)[1]
                      /\ call.op = "get" => call.key = RecordLocation(r, 1)[2]
                      /\ \A i \in 2..Len(run[r].event.Records) :
                            <<call.bucket, call.key>> # RecordLocation(r, i)
                /\ run[r].pc \notin {"Started", "Aborted"} =>
                      run[r].file_bytes = s3[RecordLocation(r, 1)])
    /\ [][\A r \in Runs :
             run[r].pc # "Idle" =>
                \A i \in 2..Len(run[r].event.Records) :
                    s3'[RecordLocation(r, i)] = s3[RecordLocation(r, i)]
         ]_vars

\* a run invoked with an event of two records, the second in another bucket
\* and with other bytes, went through to Reported and uploaded twice
C12_Witness ==
    \E r \in Runs :
        /\ Len(run[r].event.Records) >= 2
        /\ RecordLocation(r, 2)[1] # RecordLocation(r, 1)[1]
        /\ s3[RecordLocation(r, 2)] # run[r].file_bytes
        /\ run[r].pc = "Reported"
        /\ Len(Uploads(r)) = 2

(***************************************************************************)
(* Source keys of any shape: extract_s3_event takes the key of the event   *)
(* as it is, so an object can be delivered under a key that is an output   *)
(* location of the pipeline.                                               *)
(***************************************************************************)
KeyedBytes == {FileA, FileB, FileC}

KeyedLocations ==
    {<<"b1", "raw/k1.csv">>,
     <<"b1", ErrorLocation(calculate_hash(FileB))>>,
     <<"b1", ErrorLocation(calculate_hash(FileC))>>,
     <<"b1", ProcessedLocation(calculate_hash(FileA))>>}

NextKeys ==
    \E r \in Runs :
        \/ \E loc \in KeyedLocations, body \in KeyedBytes :
              ObjectCreated(r, loc, body, <<>>)
        \/ Step(r)

SpecKeys == Init /\ [][NextKeys]_vars

\* the upload calls of run r, accepted or not
Puts(r) == CallsOf(r, "put")

\* the two locations of the fingerprint of the bytes run r downloaded
OwnProcessed(r) == ProcessedLocation(calculate_hash(run[r].file_bytes))

OwnError(r) == ErrorLocation(calculate_hash(run[r].file_bytes))

\* Every upload of a run is to the processed or the error location of its
\* own fingerprint, in the event's bucket, at most once each and the
\* processed one first; a step of a run changes the store by its accepted
\* upload only, and never removes an object.
WritesOnlyOwnArtifacts ==
    /\ [](\A r \in Runs :
             /\ Len(Puts(r)) <= 2
             /\ \A i \in 1..Len(Puts(r)) :
                   /\ Puts(r)[i].bucket = RecordLocation(r, 1)[1]
                   /\ Puts(r)[i].key \in {OwnProcessed(r), OwnError(r)}
             /\ Len(Puts(r)) = 2 =>
                   Puts(r)[1].key = OwnProcessed(r) /\ Puts(r)[2].key = OwnError(r))
    /\ [][\A r \in Runs :
             (run[r].pc # "Idle" /\ run'[r] # run[r]) =>
                LET call == run'[r].calls[Len(run'[r].calls)] IN
                IF Calls(r, "put") /\ call.response = "200"
                THEN s3' = put_object(call.bucket, call.key, call.body)
                ELSE s3' = s3
         ]_vars

(***************************************************************************)
(* C18, for source keys of any shape: a run writes only the processed and  *)
(* the error object of its own fingerprint, at most once each and in that  *)
(* order, and no accepted upload of a run is ever to the location of its   *)
(* source object.                                                          *)
(***************************************************************************)
C18_NeverWritesSourceObject ==
    /\ WritesOnlyOwnArtifacts
    /\ [](\A r \in Runs : \A i \in 1..Len(Uploads(r)) :
             <<Uploads(r)[i].bucket, Uploads(r)[i].key>> # <<run[r].bucket, run[r].key>>)

(***************************************************************************)
(* C18, with the source key set apart.  A run changes storage only by its  *)
(* uploads: to the processed and the error location of its own             *)
(* fingerprint in the event's bucket, at most once each, the processed     *)
(* one first, and it deletes nothing.  A                                   *)
(* step of a run leaves the object at its source location as it is unless  *)
(* the source key is itself the processed or error location of the         *)
(* fingerprint of the bytes downloaded; then the run uploads over its      *)
(* source object.                                                          *)
(***************************************************************************)
C18_WritesOwnArtifactsOnly ==
    /\ WritesOnlyOwnArtifacts
    /\ [][\A r \in Runs :
             (/\ run[r].pc # "Idle" /\ run'[r] # run[r]
              /\ run[r].key \notin {OwnProcessed(r), OwnError(r)}) =>
                /\ <<run[r].bucket, run[r].key>> \in DOMAIN s3 =>
                      /\ <<run[r].bucket, run[r].key>> \in DOMAIN s3'
                      /\ s3'[<<run[r].bucket, run[r].key>>] = s3[<<run[r].bucket, run[r].key>>]
                /\ ~(Calls(r, "put") /\ run'[r].calls[Len(run'[r].calls)].key = run[r].key)
         ]_vars

\* one run, delivered under a raw key, uploaded the processed and then the
\* error object; another, delivered under the error location of its own
\* fingerprint, uploaded other bytes over its source object
C18_Witness ==
    \E r1, r2 \in Runs :
        /\ run[r1].key = "raw/k1.csv" /\ run[r1].pc = "Reported"
        /\ Len(Uploads(r1)) = 2
        /\ run[r2].pc = "Reported"
        /\ run[r2].key = OwnError(r2)
        /\ Len(UploadsAt(r2, run[r2].key)) = 1
        /\ s3[<<run[r2].bucket, run[r2].key>>] # run[r2].file_bytes

=============================================================================
